---- MODULE Spec2Model ----
(***************************************************************************)
(* A model of the ccic radar-retrieval pipeline                            *)
(* (ccic/bin/run_validation_retrieval.py) and of the database logging and  *)
(* the tiled retrieval of ccic/processing.py.                              *)
(*                                                                         *)
(*   SpecPipeline      the driver `run`, the Download stage                *)
(*                     (download_data) and the Process stage               *)
(*                     (process_files), connected by the two queues.       *)
(*   SpecPipelineFair  the same with the fairness of two OS processes.     *)
(*   SpecLog           ProcessingLog and LogContext of one process on one  *)
(*                     logger and one sqlite database.                     *)
(*   SpecLogConcurrent finish_logging and finalize of two processes on one *)
(*                     database, statement by statement.                   *)
(*   SpecCloud         determine_cloud_class and the cloud_type target of  *)
(*                     process_input.                                      *)
(*   SpecPad           padding, model call and crop of one tile.           *)
(*   SpecDriver        the tile loop of process_input and its result.      *)
(*   SpecMask          get_invalid_mask on a tile with a block of missing  *)
(*                     pixels.                                             *)
(*   SpecDates         the dates of the work items `run` enqueues.         *)
(*   SpecRemote        RemoteFile: the prefetch task and get.              *)
(***************************************************************************)
EXTENDS Integers, Sequences, FiniteSets, TLC

(***************************************************************************)
(* Bounds of the model.                                                    *)
(***************************************************************************)
\* The largest number of work items a caller places before the sentinel.
MaxItems == 6

\* The largest number of ProcessingLog objects constructed.
MaxLogs == 2

\* The largest number of log records emitted on the logger.
MaxEmits == 2

(***************************************************************************)
(* Program constants.                                                      *)
(***************************************************************************)
\* manager.Queue(4): the capacity of the processing queue.
QueueCapacity == 4

VARIABLES
    caller,            \* "run": the queues are filled by run(); "direct": the
                       \* stages were started on a queue pre-loaded by the caller
    work,              \* what the caller places on the work queue, in order
    runpc,             \* the caller's position in run()
    download_queue,    \* manager.Queue()
    processing_queue,  \* manager.Queue(4)
    dpc,               \* position of the download process in download_data
    dtask,             \* download_data's local `task`
    ppc,               \* position of the processing process in process_files
    ptask,             \* process_files' local `task`
    dlog,              \* tasks for which download_data called logger.exception
    plog,              \* tasks for which process_files called logger.exception
    puts,              \* every value download_data has put on processing_queue
    started,           \* tasks for which process_files has called process_day
    enqueued,          \* every value ever put on download_queue
    downloaded,        \* tasks whose download step completed without raising
    database_path,     \* RetrievalSettings.database_path: None or a path
    db_exists,         \* whether the database file exists
    files,             \* the table `files`: name -> row
    handlers,          \* logger.handlers
    logs,              \* the ProcessingLog object in use, if any
    nlogs,             \* number of ProcessingLog objects constructed
    nemit,             \* number of log records emitted
    last,              \* the last ProcessingLog operation and the table before it
    prev               \* the operation before `last`, when it was a finalize

pipeVars == <<caller, work, runpc, download_queue, processing_queue, dpc, dtask,
              ppc, ptask, dlog, plog, puts, started, enqueued, downloaded>>

logVars == <<database_path, db_exists, files, handlers, logs, nlogs, nemit,
             last, prev>>

VARIABLES
    procs,             \* two processes in finish_logging or finalize
    snapshot           \* the table before the two processes began

concVars == <<procs, snapshot>>

VARIABLES
    cloud_class,       \* y_pred["cloud_class"], the output of the model, by tile
    softmaxed,         \* torch.softmax(y_pred["cloud_class"][:, 1:], 1), by tile
    invalid,           \* get_invalid_mask(x_t), by tile
    cloud_type,        \* process_input's list `cloud_type` of tile results
    class_probs,       \* the argument of determine_cloud_class
    types,             \* the result of determine_cloud_class
    cpc                \* position in process_input or determine_cloud_class

cloudVars == <<cloud_class, softmaxed, invalid, cloud_type, class_probs, types, cpc>>

VARIABLES
    x_t,               \* process_input's tile, a list of rows
    x_orig,            \* the tile as tiler.get_tile returned it
    padding,           \* the result of calculate_padding, if it was called
    slices,            \* process_input's `slices`: None or two slices
    y_pred,            \* the outputs of mrnn.predict, by key
    padpc              \* position in the body of the tile loop

padVars == <<x_t, x_orig, padding, slices, y_pred, padpc>>

VARIABLES
    retrieval_settings, \* the targets and the inpainted_mask option
    tiler,             \* the Tiler: its numbers of rows M and of columns N
    tile_i,            \* the loop variable i of process_input
    tile_j,            \* the loop variable j of process_input
    acc,               \* means, conf_ints, p_non_zeros and the cloud lists
    visited,           \* the tiles tiler.get_tile was called for, in order
    dataset,           \* the Dataset process_input has returned, if it has
    raised_at,         \* the tile and the step that raised, if one has
    drpc               \* position in process_input

driverVars == <<retrieval_settings, tiler, tile_i, tile_j, acc, visited,
                dataset, raised_at, drpc>>

VARIABLES
    x_in,              \* the argument of get_invalid_mask: pixel -> channels
    block,             \* the block of missing pixels: <<row, column, side>>
    mask,              \* get_invalid_mask's `mask`: the pixels that are True
    mask_shape,        \* mask.shape
    iteration,         \* iterations of the dilation or erosion done
    masks,             \* the pixels that are True in the mask returned
    mpc                \* position in get_invalid_mask

maskVars == <<x_in, block, mask, mask_shape, iteration, masks, mpc>>

VARIABLES
    run_args,          \* run's args: year, month and days
    days,              \* run's local `days`
    dates,             \* run's local `dates`
    sent,              \* what run has put on download_queue, in order
    rnpc               \* position in run

dateVars == <<run_args, days, dates, sent, rnpc>>

VARIABLES
    remote_file,       \* the RemoteFile: filename, working_dir, prefetch_task
    prefetch,          \* the state of the download submitted to the thread pool
    get_dir,           \* the working_dir argument of get
    completed_at,      \* the paths to which a download has completed
    download_calls,    \* the calls of file_cls.download: <<who, path>>, in order
    got,               \* what get returned or raised, if it has
    rfpc               \* position in get

remoteVars == <<remote_file, prefetch, get_dir, completed_at, download_calls,
                got, rfpc>>

extVars == <<concVars, cloudVars, padVars, driverVars, maskVars, dateVars,
             remoteVars>>

\* What the steps of two processes on one database leave alone, besides the
\* variables of the processing log, and what a cloud classification leaves
\* alone.
concFrame == <<pipeVars, cloudVars, padVars, driverVars, maskVars, dateVars,
               remoteVars>>
cloudFrame == <<pipeVars, logVars, concVars, padVars, driverVars, maskVars,
                dateVars, remoteVars>>
padFrame == <<pipeVars, logVars, concVars, cloudVars, driverVars, maskVars,
              dateVars, remoteVars>>
driverFrame == <<pipeVars, logVars, concVars, cloudVars, padVars, maskVars,
                 dateVars, remoteVars>>
maskFrame == <<pipeVars, logVars, concVars, cloudVars, padVars, driverVars,
               dateVars, remoteVars>>
dateFrame == <<pipeVars, logVars, concVars, cloudVars, padVars, driverVars,
               maskVars, remoteVars>>
remoteFrame == <<pipeVars, logVars, concVars, cloudVars, padVars, driverVars,
                 maskVars, dateVars>>

vars == <<pipeVars, logVars, extVars>>

\* Python's None, the queue sentinel.
None == <<>>

\* The entry of `last` and `prev` when no operation has happened.
NoOp == [op |-> "none", inst |-> 0, raised |-> FALSE, before |-> <<>>,
         args |-> <<>>]

\* The logging state of a process that has constructed no ProcessingLog.
LogIdle ==
    /\ db_exists = FALSE
    /\ files = <<>>
    /\ handlers = <<>>
    /\ logs = <<>>
    /\ nlogs = 0
    /\ nemit = 0
    /\ last = NoOp
    /\ prev = NoOp

\* No two processes are writing to the database at the same time.
ConcIdle ==
    /\ procs = <<>>
    /\ snapshot = <<>>

\* No cloud classification is under way.
CloudIdle ==
    /\ cloud_class = <<>>
    /\ softmaxed = <<>>
    /\ invalid = <<>>
    /\ cloud_type = <<>>
    /\ class_probs = <<>>
    /\ types = <<>>
    /\ cpc = "idle"

\* No tile is being padded.
PadIdle ==
    /\ x_t = <<>>
    /\ x_orig = <<>>
    /\ padding = <<>>
    /\ slices = <<>>
    /\ y_pred = <<>>
    /\ padpc = "idle"

\* process_input is not running.
DriverIdle ==
    /\ retrieval_settings = <<>>
    /\ tiler = <<>>
    /\ tile_i = 0
    /\ tile_j = 0
    /\ acc = <<>>
    /\ visited = <<>>
    /\ dataset = <<>>
    /\ raised_at = <<>>
    /\ drpc = "idle"

\* get_invalid_mask is not running.
MaskIdle ==
    /\ x_in = <<>>
    /\ block = <<>>
    /\ mask = {}
    /\ mask_shape = <<>>
    /\ iteration = 0
    /\ masks = {}
    /\ mpc = "idle"

\* run is not determining the dates of its work items.
DatesIdle ==
    /\ run_args = <<>>
    /\ days = <<>>
    /\ dates = <<>>
    /\ sent = <<>>
    /\ rnpc = "idle"

\* There is no RemoteFile.
RemoteIdle ==
    /\ remote_file = <<>>
    /\ prefetch = "none"
    /\ get_dir = <<>>
    /\ completed_at = {}
    /\ download_calls = <<>>
    /\ got = [status |-> "none", path |-> <<>>]
    /\ rfpc = "idle"

\* Nothing but the pipeline or the processing log of one process is running.
ExtIdle ==
    /\ ConcIdle
    /\ CloudIdle
    /\ PadIdle
    /\ DriverIdle
    /\ MaskIdle
    /\ DatesIdle
    /\ RemoteIdle

\* The work item (input_data, date); the k-th date of the caller stands for
\* itself.
Task(k) == <<"input_data", k>>

\* The tasks for dates lo..hi, in order.
Tasks(lo, hi) == [i \in 1..(hi - lo + 1) |-> Task(lo + i - 1)]

\* Work queues pre-loaded by a caller of the two stages: n tasks, then either
\* nothing, the sentinel, or the sentinel with one more task behind it.
Preloaded ==
    { Tasks(1, n) : n \in 0..MaxItems }
    \cup { Tasks(1, n) \o <<None>> : n \in 0..MaxItems }
    \cup { Tasks(1, n) \o <<None>> \o Tasks(n + 1, n + 1) : n \in 0..MaxItems }

(***************************************************************************)
(* The state after `run` has created the queues and the two Process        *)
(* objects, or after another caller has pre-loaded the work queue, started *)
(* the two stages and waits for them as run does.                          *)
(***************************************************************************)
InitPipeline ==
    /\ database_path = None
    /\ LogIdle
    /\ ExtIdle
    /\ dtask = None
    /\ ptask = None
    /\ processing_queue = <<>>
    /\ dlog = <<>>
    /\ plog = <<>>
    /\ puts = <<>>
    /\ started = <<>>
    /\ downloaded = <<>>
    /\ \/ /\ caller = "run"
          /\ work \in { Tasks(1, n) : n \in 0..MaxItems }
          /\ runpc = "put"
          /\ download_queue = <<>>
          /\ dpc = "idle"
          /\ ppc = "idle"
       \/ /\ caller = "direct"
          /\ work \in Preloaded
          /\ runpc = "join_download"
          /\ download_queue = work
          /\ dpc = "get"
          /\ ppc = "get"
    /\ enqueued = download_queue

(***************************************************************************)
(* run                                                                     *)
(***************************************************************************)
\* for date in dates: download_queue.put((input_data, date))
RunPut ==
    /\ runpc = "put"
    /\ Len(download_queue) < Len(work)
    /\ download_queue' = Append(download_queue, work[Len(download_queue) + 1])
    /\ enqueued' = Append(enqueued, work[Len(download_queue) + 1])
    /\ UNCHANGED <<caller, work, runpc, processing_queue, dpc, dtask, ppc, ptask,
                   dlog, plog, puts, started, downloaded>>
    /\ UNCHANGED logVars
    /\ UNCHANGED extVars

\* download_process.start(); processing_process.start()
RunStart ==
    /\ runpc = "put"
    /\ Len(download_queue) = Len(work)
    /\ runpc' = "join_download"
    /\ dpc' = "get"
    /\ ppc' = "get"
    /\ UNCHANGED <<caller, work, download_queue, processing_queue, dtask, ptask,
                   dlog, plog, puts, started, enqueued, downloaded>>
    /\ UNCHANGED logVars
    /\ UNCHANGED extVars

\* download_process.join()
RunJoinDownload ==
    /\ runpc = "join_download"
    /\ dpc = "done"
    /\ runpc' = "join_processing"
    /\ UNCHANGED <<caller, work, download_queue, processing_queue, dpc, dtask,
                   ppc, ptask, dlog, plog, puts, started, enqueued, downloaded>>
    /\ UNCHANGED logVars
    /\ UNCHANGED extVars

\* processing_process.join()
RunJoinProcessing ==
    /\ runpc = "join_processing"
    /\ ppc = "done"
    /\ runpc' = "done"
    /\ UNCHANGED <<caller, work, download_queue, processing_queue, dpc, dtask,
                   ppc, ptask, dlog, plog, puts, started, enqueued, downloaded>>
    /\ UNCHANGED logVars
    /\ UNCHANGED extVars

(***************************************************************************)
(* download_data                                                           *)
(***************************************************************************)
\* A loop that skips the sentinel (continue) instead of ending on it.
DownloadGet_Continue ==
    /\ dpc = "get"
    /\ download_queue # <<>>
    /\ dtask' = Head(download_queue)
    /\ download_queue' = Tail(download_queue)
    /\ dpc' = IF Head(download_queue) = None THEN "get" ELSE "has_data"
    /\ UNCHANGED <<caller, work, runpc, processing_queue, ppc, ptask, dlog, plog,
                   puts, started, enqueued, downloaded>>
    /\ UNCHANGED logVars
    /\ UNCHANGED extVars

\* task = download_queue.get(); if task is None: break
DownloadGet ==
    /\ dpc = "get"
    /\ download_queue # <<>>
    /\ dtask' = Head(download_queue)
    /\ download_queue' = Tail(download_queue)
    /\ dpc' = IF Head(download_queue) = None THEN "put_none" ELSE "has_data"
    /\ UNCHANGED <<caller, work, runpc, processing_queue, ppc, ptask, dlog, plog,
                   puts, started, enqueued, downloaded>>
    /\ UNCHANGED logVars
    /\ UNCHANGED extVars

\* A has_data whose exception escapes the loop: the download process dies.
AfterHasData_Uncaught(outcome) ==
    CASE outcome = "true" -> "put"
      [] outcome = "false" -> "download_data"
      [] outcome = "raise" -> "dead"

\* Where download_data goes after has_data(date) returned or raised.
AfterHasData(outcome) ==
    CASE outcome = "true" -> "put"
      [] outcome = "false" -> "download_data"
      [] outcome = "raise" -> "get"

\* if not input_data.has_data(date): ...   except Exception: logger.exception
DownloadHasData ==
    /\ dpc = "has_data"
    /\ \E outcome \in {"true", "false", "raise"} :
          /\ dpc' = AfterHasData(outcome)
          /\ dlog' = IF outcome = "raise" THEN Append(dlog, dtask) ELSE dlog
          /\ downloaded' = IF outcome = "true" THEN Append(downloaded, dtask)
                                              ELSE downloaded
    /\ UNCHANGED <<caller, work, runpc, download_queue, processing_queue, dtask,
                   ppc, ptask, plog, puts, started, enqueued>>
    /\ UNCHANGED logVars
    /\ UNCHANGED extVars

\* A failed download that is logged and forwarded all the same.
AfterDownload_PutAnyway(outcome) ==
    "put"

\* A failed download that ends the loop.
AfterDownload_Break(outcome) ==
    IF outcome = "return" THEN "put" ELSE "put_none"

\* Where download_data goes after download_data(date) returned or raised.
AfterDownload(outcome) ==
    IF outcome = "return" THEN "put" ELSE "get"

\* input_data.download_data(date)   except Exception: logger.exception
DownloadDownload ==
    /\ dpc = "download_data"
    /\ \E outcome \in {"return", "raise"} :
          /\ dpc' = AfterDownload(outcome)
          /\ dlog' = IF outcome = "raise" THEN Append(dlog, dtask) ELSE dlog
          /\ downloaded' = IF outcome = "return" THEN Append(downloaded, dtask)
                                                ELSE downloaded
    /\ UNCHANGED <<caller, work, runpc, download_queue, processing_queue, dtask,
                   ppc, ptask, plog, puts, started, enqueued>>
    /\ UNCHANGED logVars
    /\ UNCHANGED extVars

\* A queue created without maxsize.
CanPut_Unbounded(queue) == TRUE

\* Queue.put blocks while the queue holds maxsize entries.
CanPut(queue) == Len(queue) < QueueCapacity

\* processing_queue.put((input_data, date))
DownloadPut ==
    /\ dpc = "put"
    /\ CanPut(processing_queue)
    /\ processing_queue' = Append(processing_queue, dtask)
    /\ puts' = Append(puts, dtask)
    /\ dpc' = "get"
    /\ UNCHANGED <<caller, work, runpc, download_queue, dtask, ppc, ptask, dlog,
                   plog, started, enqueued, downloaded>>
    /\ UNCHANGED logVars
    /\ UNCHANGED extVars

\* processing_queue.put(None), after the loop
DownloadPutNone ==
    /\ dpc = "put_none"
    /\ CanPut(processing_queue)
    /\ processing_queue' = Append(processing_queue, None)
    /\ puts' = Append(puts, None)
    /\ dpc' = "done"
    /\ UNCHANGED <<caller, work, runpc, download_queue, dtask, ppc, ptask, dlog,
                   plog, started, enqueued, downloaded>>
    /\ UNCHANGED logVars
    /\ UNCHANGED extVars

(***************************************************************************)
(* process_files                                                           *)
(***************************************************************************)
\* Where process_files goes after dequeuing `task`.
AfterProcessGet(task) ==
    IF task = None THEN "done" ELSE "process_day"

\* A processing queue that hands out its newest entry first.
ProcessGet_Lifo ==
    /\ ppc = "get"
    /\ processing_queue # <<>>
    /\ ptask' = processing_queue[Len(processing_queue)]
    /\ processing_queue' = SubSeq(processing_queue, 1, Len(processing_queue) - 1)
    /\ ppc' = AfterProcessGet(processing_queue[Len(processing_queue)])
    /\ UNCHANGED <<caller, work, runpc, download_queue, dpc, dtask, dlog, plog,
                   puts, started, enqueued, downloaded>>
    /\ UNCHANGED logVars
    /\ UNCHANGED extVars

\* task = processing_queue.get(); if task is None: break
ProcessGet ==
    /\ ppc = "get"
    /\ processing_queue # <<>>
    /\ ptask' = Head(processing_queue)
    /\ processing_queue' = Tail(processing_queue)
    /\ ppc' = AfterProcessGet(Head(processing_queue))
    /\ UNCHANGED <<caller, work, runpc, download_queue, dpc, dtask, dlog, plog,
                   puts, started, enqueued, downloaded>>
    /\ UNCHANGED logVars
    /\ UNCHANGED extVars

\* A try block around the loop instead of inside it.
AfterProcessDay_Stop(outcome) ==
    IF outcome = "raise" THEN "done" ELSE "get"

\* Where process_files goes after process_day returned or raised.
AfterProcessDay(outcome) == "get"

\* process_day(...)   except Exception: logger.exception
ProcessDay ==
    /\ ppc = "process_day"
    /\ \E outcome \in {"return", "raise"} :
          /\ ppc' = AfterProcessDay(outcome)
          /\ plog' = IF outcome = "raise" THEN Append(plog, ptask) ELSE plog
    /\ started' = Append(started, ptask)
    /\ UNCHANGED <<caller, work, runpc, download_queue, processing_queue, dpc,
                   dtask, ptask, dlog, puts, enqueued, downloaded>>
    /\ UNCHANGED logVars
    /\ UNCHANGED extVars

DownloadStep ==
    \/ DownloadGet
    \/ DownloadHasData
    \/ DownloadDownload
    \/ DownloadPut
    \/ DownloadPutNone

ProcessStep ==
    \/ ProcessGet
    \/ ProcessDay

NextPipeline ==
    \/ RunPut
    \/ RunStart
    \/ RunJoinDownload
    \/ RunJoinProcessing
    \/ DownloadGet
    \/ DownloadHasData
    \/ DownloadDownload
    \/ DownloadPut
    \/ DownloadPutNone
    \/ ProcessGet
    \/ ProcessDay

SpecPipeline == InitPipeline /\ [][NextPipeline]_vars

\* The download process and the processing process are operating-system
\* processes: each one that can take a step eventually takes it.
SpecPipelineFair ==
    /\ InitPipeline
    /\ [][NextPipeline]_vars
    /\ WF_vars(DownloadStep)
    /\ WF_vars(ProcessStep)

(***************************************************************************)
(* Processing log: ProcessingLog and LogContext (ccic/processing.py)       *)
(***************************************************************************)
\* The pipeline of a process that only uses the processing log.
PipelineIdle ==
    /\ caller = "direct"
    /\ work = <<>>
    /\ runpc = "done"
    /\ download_queue = <<>>
    /\ processing_queue = <<>>
    /\ dpc = "done"
    /\ dtask = None
    /\ ppc = "done"
    /\ ptask = None
    /\ dlog = <<>>
    /\ plog = <<>>
    /\ puts = <<>>
    /\ started = <<>>
    /\ enqueued = <<>>
    /\ downloaded = <<>>

\* The state of everything else while one function of ccic/processing.py is
\* looked at on its own: no pipeline, no processing log, and none of the
\* other functions.
OthersIdle(function) ==
    /\ PipelineIdle
    /\ database_path = None
    /\ LogIdle
    /\ ConcIdle
    /\ IF function = "cloud" THEN TRUE ELSE CloudIdle
    /\ IF function = "pad" THEN TRUE ELSE PadIdle
    /\ IF function = "driver" THEN TRUE ELSE DriverIdle
    /\ IF function = "mask" THEN TRUE ELSE MaskIdle
    /\ IF function = "dates" THEN TRUE ELSE DatesIdle
    /\ IF function = "remote" THEN TRUE ELSE RemoteIdle

\* Path(database_path)
Path(p) == <<p>>

\* The names of input files.
Filenames == {"f1", "f2"}

\* The names of output files passed to finalize.
OutputFiles == {"out1", "out2"}

\* Text is a sequence of code points.  The records logged are all different:
\* the k-th is the k-th letter after "`" followed by the k-th code point after
\* U+00E8, which UTF-8 encodes in two bytes.
Message(k) == << 96 + k, 232 + k >>

\* str.encode(): UTF-8 of one code point below 2048.
EncodeChar(c) ==
    IF c < 128 THEN <<c>> ELSE << 192 + (c \div 64), 128 + (c % 64) >>

\* str.encode(): UTF-8 of a text.
RECURSIVE Encode(_)
Encode(text) ==
    IF text = <<>> THEN <<>>
    ELSE EncodeChar(Head(text)) \o Encode(Tail(text))

\* A float is a fraction <<numerator, denominator>>; np.nan is the empty
\* tuple and SQL NULL the fraction 0/0.
NaN == <<>>
Null == <<0, 0>>
Real(n) == <<n, 1>>

\* What sqlite3 stores for a float parameter: NaN is stored as NULL.
ToSql(x) == IF x = NaN THEN Null ELSE x

\* The result sets passed to finalize: which variables they hold and the
\* pixels of tiwp.
ResultSets ==
    { [names |-> {"tiwc"}, tiwp |-> <<>>],
      [names |-> {"tiwp", "tiwc"}, tiwp |-> <<Real(1), NaN, Real(2)>>] }

RECURSIVE Gcd(_, _)
Gcd(a, b) == IF b = 0 THEN a ELSE Gcd(b, a % b)

RECURSIVE Sum(_)
Sum(values) ==
    IF values = <<>> THEN 0 ELSE Head(values)[1] + Sum(Tail(values))

\* The pixels that are not NaN.
Valid(pixels) == SelectSeq(pixels, LAMBDA v : v # NaN)

\* results.tiwp.mean().item(): the mean of the pixels that are not NaN.
Mean(pixels) ==
    LET valid == Valid(pixels)
        g == Gcd(Sum(valid), Len(valid))
    IN  IF valid = <<>> THEN NaN
        ELSE << Sum(valid) \div g, Len(valid) \div g >>

\* results.tiwp.min().item()
Min(pixels) ==
    LET valid == Valid(pixels)
    IN  IF valid = <<>> THEN NaN
        ELSE CHOOSE v \in { valid[i] : i \in DOMAIN valid } :
                 \A i \in DOMAIN valid : v[1] <= valid[i][1]

\* results.tiwp.max().item()
Max(pixels) ==
    LET valid == Valid(pixels)
    IN  IF valid = <<>> THEN NaN
        ELSE CHOOSE v \in { valid[i] : i \in DOMAIN valid } :
                 \A i \in DOMAIN valid : v[1] >= valid[i][1]

\* int(np.isnan(results.tiwp.data).sum())
CountNaN(pixels) == Len(pixels) - Len(Valid(pixels))

\* The statistics finalize computes from a result set.
Statistics(results) ==
    IF "tiwp" \in results.names
    THEN [tiwp_mean |-> Mean(results.tiwp), tiwp_min |-> Min(results.tiwp),
          tiwp_max |-> Max(results.tiwp), n_missing |-> CountNaN(results.tiwp)]
    ELSE [tiwp_mean |-> NaN, tiwp_min |-> NaN, tiwp_max |-> NaN,
          n_missing |-> -1]

\* The row _init_entry inserts.
NewRow(input_file, now) ==
    [name |-> input_file, date |-> now, success |-> 0, output_file |-> "",
     tiwp_min |-> ToSql(NaN), tiwp_max |-> ToSql(NaN), tiwp_mean |-> ToSql(NaN),
     n_missing |-> -1, log |-> <<>>]

\* The table with `row` stored under its name.
Store(table, row) ==
    [n \in DOMAIN table \cup {row.name} |->
        IF n = row.name THEN row ELSE table[n]]

\* _init_entry: insert the row of input_file unless the table has one.
InitEntry_Reset(table, input_file, now) ==
    Store(table, NewRow(input_file, now))

InitEntry(table, input_file, now) ==
    IF input_file \in DOMAIN table THEN table
    ELSE Store(table, NewRow(input_file, now))

\* logger.addHandler(self)
AddHandler(hs, i) ==
    IF \E k \in DOMAIN hs : hs[k] = i THEN hs ELSE Append(hs, i)

\* A removeHandler that leaves the handler attached.
RemoveHandler_Keep(hs, i) == hs

\* logger.removeHandler(self)
RemoveHandler(hs, i) == SelectSeq(hs, LAMBDA h : h # i)

\* A finish_logging that writes the buffer over the stored blob.
AppendLog_Overwrite(blob, buffer) == Encode(buffer)

\* res.fetchone()[0] + self.buffer.read().encode()
AppendLog(blob, buffer) == blob \o Encode(buffer)

\* A finalize that leaves a row alone once it is marked successful.
FinalizeRow_FirstWins(row, results, output_file) ==
    IF row.success = 1 THEN row
    ELSE [row EXCEPT !.success = 1, !.output_file = output_file,
                     !.tiwp_min = ToSql(Statistics(results).tiwp_min),
                     !.tiwp_max = ToSql(Statistics(results).tiwp_max),
                     !.tiwp_mean = ToSql(Statistics(results).tiwp_mean),
                     !.n_missing = Statistics(results).n_missing]

\* finalize's UPDATE of the row.
FinalizeRow(row, results, output_file) ==
    [row EXCEPT !.success = 1, !.output_file = output_file,
                !.tiwp_min = ToSql(Statistics(results).tiwp_min),
                !.tiwp_max = ToSql(Statistics(results).tiwp_max),
                !.tiwp_mean = ToSql(Statistics(results).tiwp_mean),
                !.n_missing = Statistics(results).n_missing]

\* The values of a sequence.
Range(seq) == { seq[i] : i \in DOMAIN seq }

\* The rows stored under a name: one or none.
Rows(table, name) == IF name \in DOMAIN table THEN <<table[name]>> ELSE <<>>

\* The record of an operation of ProcessingLog i on input_file for `last`,
\* with the rows of input_file before it.
Op(name, i, input_file, raised, args) ==
    [op |-> name, inst |-> i, raised |-> raised,
     before |-> Rows(files, input_file), args |-> args]

\* `prev` keeps the last operation when it was a finalize.
Keep(op) == IF op.op = "finalize" THEN op ELSE NoOp

\* The ProcessingLog objects in use: the one constructed last, if any.  A
\* process handles its input files one after another and constructs the
\* ProcessingLog of the next file when the capture context of the previous
\* one is closed.
Idle == IF logs = <<>> THEN TRUE ELSE logs[1].phase # "open"

\* datetime.now(): the clock has advanced with every ProcessingLog
\* constructed.
Now == nlogs + 1

(***************************************************************************)
(* The state before the first ProcessingLog is constructed.                *)
(***************************************************************************)
InitLog ==
    /\ PipelineIdle
    /\ database_path \in {None, Path("ccic_processing.db")}
    /\ LogIdle
    /\ ExtIdle

\* A constructor that creates the database whatever database_path is.
Construct_AlwaysCreate ==
    /\ nlogs < MaxLogs
    /\ Idle
    /\ nlogs' = nlogs + 1
    /\ \E input_file \in Filenames, now \in {Now} :
          /\ logs' = << [id |-> nlogs + 1, input_file |-> input_file,
                         buffer |-> <<>>, phase |-> "new", finalized |-> FALSE,
                         heard |-> <<>>] >>
          /\ db_exists' = TRUE
          /\ files' = InitEntry(files, input_file, now)
          /\ last' = Op("construct", nlogs + 1, input_file, FALSE, <<>>)
    /\ prev' = Keep(last)
    /\ UNCHANGED <<database_path, handlers, nemit>>
    /\ UNCHANGED pipeVars
    /\ UNCHANGED extVars

\* ProcessingLog(database_path, input_file): __init__, _init_db, _init_entry
Construct ==
    /\ nlogs < MaxLogs
    /\ Idle
    /\ nlogs' = nlogs + 1
    /\ \E input_file \in Filenames, now \in {Now} :
          /\ logs' = << [id |-> nlogs + 1, input_file |-> input_file,
                         buffer |-> <<>>, phase |-> "new", finalized |-> FALSE,
                         heard |-> <<>>] >>
          /\ IF database_path = None
             THEN UNCHANGED <<db_exists, files>>
             ELSE /\ db_exists' = TRUE
                  /\ files' = InitEntry(files, input_file, now)
          /\ last' = Op("construct", nlogs + 1, input_file, FALSE, <<>>)
    /\ prev' = Keep(last)
    /\ UNCHANGED <<database_path, handlers, nemit>>
    /\ UNCHANGED pipeVars
    /\ UNCHANGED extVars

\* LogContext.__enter__: start_logging
StartLogging ==
    /\ logs # <<>>
    /\ logs[1].phase # "open"
    /\ handlers' = AddHandler(handlers, logs[1].id)
    /\ logs' = [logs EXCEPT ![1].buffer = <<>>, ![1].phase = "open",
                            ![1].heard = <<>>]
    /\ last' = Op("enter", logs[1].id, logs[1].input_file, FALSE, <<>>)
    /\ prev' = Keep(last)
    /\ UNCHANGED <<database_path, db_exists, files, nemit, nlogs>>
    /\ UNCHANGED pipeVars
    /\ UNCHANGED extVars

\* A record is logged on the logger: Handler.handle calls emit on every
\* handler of the logger.
Emit ==
    /\ nemit < MaxEmits
    /\ nemit' = nemit + 1
    /\ \E message \in {Message(nemit + 1)} :
          logs' = [i \in DOMAIN logs |->
                     [logs[i] EXCEPT
                        !.buffer = IF logs[i].id \in Range(handlers)
                                   THEN @ \o message \o <<10>> ELSE @,
                        !.heard = IF logs[i].phase = "open"
                                  THEN @ \o message \o <<10>> ELSE @]]
    /\ UNCHANGED <<database_path, db_exists, files, handlers, last, prev, nlogs>>
    /\ UNCHANGED pipeVars
    /\ UNCHANGED extVars

\* LogContext.__exit__: finish_logging, after the body returned or raised
FinishLogging ==
    /\ logs # <<>>
    /\ logs[1].phase = "open"
    /\ handlers' = RemoveHandler(handlers, logs[1].id)
    /\ IF database_path = None
       THEN UNCHANGED files
       ELSE files' = [files EXCEPT ![logs[1].input_file].log =
                                      AppendLog(@, logs[1].buffer)]
    /\ logs' = [logs EXCEPT ![1].phase = "closed"]
    /\ \E raised \in BOOLEAN :
          last' = Op("exit", logs[1].id, logs[1].input_file, raised, <<>>)
    /\ prev' = Keep(last)
    /\ UNCHANGED <<database_path, db_exists, nemit, nlogs>>
    /\ UNCHANGED pipeVars
    /\ UNCHANGED extVars

\* ProcessingLog.finalize(results, output_file)
Finalize ==
    /\ logs # <<>>
    /\ \E results \in ResultSets, output_file \in OutputFiles :
          /\ IF database_path = None
             THEN UNCHANGED files
             ELSE IF logs[1].input_file \in DOMAIN files
                  THEN files' = [files EXCEPT ![logs[1].input_file] =
                                    FinalizeRow(@, results, output_file)]
                  ELSE UNCHANGED files
          /\ last' = Op("finalize", logs[1].id, logs[1].input_file, FALSE,
                         <<results, output_file>>)
    /\ logs' = [logs EXCEPT ![1].finalized = TRUE]
    /\ prev' = Keep(last)
    /\ UNCHANGED <<database_path, db_exists, handlers, nemit, nlogs>>
    /\ UNCHANGED pipeVars
    /\ UNCHANGED extVars

NextLog ==
    \/ Construct
    \/ StartLogging
    \/ Emit
    \/ FinishLogging
    \/ Finalize

SpecLog == InitLog /\ [][NextLog]_vars

(***************************************************************************)
(* Properties of the pipeline                                              *)
(***************************************************************************)
\* How often x occurs in seq.
Count(seq, x) == Cardinality({ i \in DOMAIN seq : seq[i] = x })

\* The work queue holds N work items followed by one None sentinel.
SentinelLast ==
    /\ caller = "direct"
    /\ Len(work) >= 1
    /\ work = Tasks(1, Len(work) - 1) \o <<None>>

\* The N of such a work queue.
NItems == Len(work) - 1

BothStagesDone == dpc = "done" /\ ppc = "done"

\* C1: with N work items followed by the sentinel on the work queue, the
\* Download stage and the Process stage both eventually terminate, whichever
\* downloads and processing calls raise.
C1_Termination == SentinelLast => <>BothStagesDone

\* Both stages have terminated after a download and a processing call raised.
C1_Witness ==
    /\ SentinelLast
    /\ BothStagesDone
    /\ dlog # <<>>
    /\ plog # <<>>

\* C2: once run has put its work items and started the stages, the last value
\* it has put on the work queue is the None sentinel.
C2_RunEnqueuesSentinel ==
    (caller = "run" /\ runpc # "put") =>
        (enqueued # <<>> /\ enqueued[Len(enqueued)] = None)

\* C3: when both stages have terminated on N work items followed by the
\* sentinel, every item was either handed to process_day exactly once (and
\* logged at most once by the Process stage) or logged exactly once by the
\* Download stage and never forwarded; invocations plus download failures
\* number N.
C3_ExactAccounting ==
    (SentinelLast /\ BothStagesDone) =>
        /\ \A k \in 1..NItems :
              \/ /\ Count(started, Task(k)) = 1
                 /\ Count(dlog, Task(k)) = 0
                 /\ Count(plog, Task(k)) <= 1
              \/ /\ Count(started, Task(k)) = 0
                 /\ Count(dlog, Task(k)) = 1
                 /\ Count(puts, Task(k)) = 0
                 /\ Count(plog, Task(k)) = 0
        /\ Len(started) + Len(dlog) = NItems

\* Three or more items, of which one failed to download, one failed in
\* process_day and one succeeded, have been accounted for.
C3_Witness ==
    /\ SentinelLast
    /\ BothStagesDone
    /\ NItems >= 3
    /\ dlog # <<>>
    /\ plog # <<>>
    /\ Len(started) > Len(plog)

\* C4: with the sentinel behind the work items, eventually both stages are
\* done, the last value forwarded is None, and every item whose download step
\* did not raise was forwarded once and handed to process_day once, whichever
\* other items' download steps raised and were logged.
C4_DownloadFailureIsolation ==
    SentinelLast =>
        <>(/\ BothStagesDone
           /\ puts # <<>>
           /\ puts[Len(puts)] = None
           /\ \A k \in 1..NItems :
                 Count(dlog, Task(k)) = 0 =>
                     (Count(puts, Task(k)) = 1 /\ Count(started, Task(k)) = 1))

\* The first item's download raised, and a later item was still processed.
C4_Witness ==
    /\ SentinelLast
    /\ BothStagesDone
    /\ dlog # <<>>
    /\ dlog[1] = Task(1)
    /\ Count(started, Task(NItems)) = 1

\* C5: the Process stage stops only on dequeuing None, and when it has
\* stopped it has handed to process_day every task that was forwarded, in
\* order, including those behind a task whose process_day raised and was
\* logged.
C5_ProcessFailureIsolation ==
    /\ \A i \in DOMAIN plog : Count(started, plog[i]) >= 1
    /\ ppc = "done" =>
          /\ ptask = None
          /\ dpc = "done"
          /\ puts = started \o <<None>>

\* process_day raised for the first task forwarded, and the stage went on to
\* the tasks behind it until it dequeued None.
C5_Witness ==
    /\ ppc = "done"
    /\ plog # <<>>
    /\ plog[1] = started[1]
    /\ Len(started) >= 3

\* Tasks the Process stage has dequeued.
Dequeued == Len(started) + (IF ppc = "process_day" THEN 1 ELSE 0)

\* C6: the processing queue never holds more than 4 entries, and at most 5
\* tasks have finished their download step without having been dequeued by
\* the Process stage.
C6_Backpressure ==
    /\ Len(processing_queue) <= QueueCapacity
    /\ Len(downloaded) - Dequeued <= QueueCapacity + 1

\* The queue is full, a fifth downloaded task waits in put, and more work is
\* waiting on the work queue.
C6_Witness ==
    /\ Len(processing_queue) = QueueCapacity
    /\ dpc = "put"
    /\ Len(downloaded) - Dequeued = QueueCapacity + 1
    /\ download_queue # <<>>

(***************************************************************************)
(* Properties of the processing log                                        *)
(***************************************************************************)
DbConfigured == database_path # None

\* a is a prefix of b.
IsPrefix(a, b) == Len(a) <= Len(b) /\ SubSeq(b, 1, Len(a)) = a

\* The stored row of the file of the ProcessingLog in use.
CurrentRow == files[logs[1].input_file]

\* C7: after a capture context was left by an exception in an attempt whose
\* ProcessingLog never called finalize, the stored row of that filename has
\* success = false.
C7_FailedAttemptLeavesFalse ==
    (DbConfigured /\ last.op = "exit" /\ last.raised /\ ~logs[1].finalized) =>
        CurrentRow.success = 0

\* C8: the blob of a filename after a ProcessingLog operation starts with the
\* blob before it; construction, entering a capture context and finalize
\* leave it as it was (empty for a new row), and leaving a capture context
\* adds exactly the encoded text logged while the context was open.
C8_AppendOnly ==
    (DbConfigured /\ last.op # "none") =>
        LET old == IF last.before = <<>> THEN <<>> ELSE last.before[1].log
        IN  /\ IsPrefix(old, CurrentRow.log)
            /\ last.op \in {"construct", "enter", "finalize"} =>
                  CurrentRow.log = old
            /\ last.op = "exit" =>
                  CurrentRow.log = old \o Encode(logs[1].heard)

\* The capture context of a second ProcessingLog of a filename has added its
\* text behind the blob an earlier attempt left.
C8_Witness ==
    /\ DbConfigured
    /\ last.op = "exit"
    /\ last.inst = 2
    /\ last.before # <<>>
    /\ last.before[1].log # <<>>
    /\ logs[1].heard # <<>>
    /\ Len(CurrentRow.log) > Len(last.before[1].log)

\* C9: after two finalize calls in a row for a filename, the row is as after
\* the first call when the arguments were the same; success, output_file and
\* the statistics are those of the second call's arguments; name, date and
\* blob are those of the row before the first call.
C9_FinalizeLastWriteWins ==
    (DbConfigured /\ last.op = "finalize" /\ prev.op = "finalize") =>
        LET first == prev.before[1]
            stats == Statistics(last.args[1])
        IN  /\ last.args = prev.args => CurrentRow = last.before[1]
            /\ CurrentRow.success = 1
            /\ CurrentRow.output_file = last.args[2]
            /\ CurrentRow.tiwp_min = ToSql(stats.tiwp_min)
            /\ CurrentRow.tiwp_max = ToSql(stats.tiwp_max)
            /\ CurrentRow.tiwp_mean = ToSql(stats.tiwp_mean)
            /\ CurrentRow.n_missing = stats.n_missing
            /\ CurrentRow.name = first.name
            /\ CurrentRow.date = first.date
            /\ CurrentRow.log = first.log

\* finalize was called twice in a row with different result sets and output
\* files on a row that held captured text.
C9_Witness ==
    /\ DbConfigured
    /\ last.op = "finalize"
    /\ prev.op = "finalize"
    /\ last.args[1] # prev.args[1]
    /\ last.args[2] # prev.args[2]
    /\ prev.before[1].log # <<>>

\* C10: a ProcessingLog is among the logger's handlers exactly while its
\* capture context is open; after the context was left, normally or by an
\* exception, it is not among them and the text logged inside the context is
\* at the end of the stored blob of its filename.
C10_ScopedCapture ==
    /\ \A i \in 1..nlogs :
          i \in Range(handlers) <=>
              (logs[1].id = i /\ logs[1].phase = "open")
    /\ last.op = "exit" =>
          /\ last.inst \notin Range(handlers)
          /\ DbConfigured =>
                CurrentRow.log = last.before[1].log \o Encode(logs[1].heard)

\* A capture context in which text was logged was left by an exception.
C10_Witness ==
    /\ DbConfigured
    /\ last.op = "exit"
    /\ last.raised
    /\ logs[1].heard # <<>>
    /\ handlers = <<>>

(***************************************************************************)
(* Properties of the sentinel and of the order of the work items           *)
(***************************************************************************)
\* The work items placed on the work queue behind the first None.
BehindSentinel ==
    { work[i] : i \in { i \in DOMAIN work :
                          \E j \in 1..(i - 1) : work[j] = None } }

\* C19: the Download stage puts None on the processing queue at most once,
\* and once when it has ended, only when it has dequeued None from the work
\* queue and as its last put;
\* the Process stage has dequeued nothing after None; and a work item placed
\* behind the sentinel is never dequeued, downloaded, forwarded or processed.
C19_SentinelPropagation ==
    /\ Count(puts, None) <= 1
    /\ dpc = "done" => Count(puts, None) = 1
    /\ \A i \in DOMAIN puts :
          puts[i] = None => (i = Len(puts) /\ dtask = None /\ dpc = "done")
    /\ dpc \in {"put_none", "done"} => dtask = None
    /\ ppc = "done" => ptask = None
    /\ \A t \in BehindSentinel :
          /\ t \notin Range(downloaded) \cup Range(dlog)
          /\ t \notin Range(puts) \cup Range(started) \cup Range(plog)
          /\ dtask # t
          /\ ptask # t

\* Both stages have ended on a work queue with two or more items before the
\* sentinel and one behind it, which is still on the work queue.
C19_Witness ==
    /\ caller = "direct"
    /\ BehindSentinel # {}
    /\ BothStagesDone
    /\ Len(started) >= 2
    /\ puts[Len(puts)] = None
    /\ download_queue = <<work[Len(work)]>>

\* The work items of a sequence of queue entries.
TasksOf(seq) == SelectSeq(seq, LAMBDA t : t # None)

\* The entries the Download stage has dequeued and is done with.
Settled ==
    LET n == Len(enqueued) - Len(download_queue)
    IN  SubSeq(enqueued, 1,
               IF dpc \in {"has_data", "download_data"} THEN n - 1 ELSE n)

\* C20: the tasks handed to process_day are, in order, the first of the tasks
\* the Download stage has put; these are, in order, the first of the tasks
\* whose download step completed; and those are the dequeued work items in
\* work-queue order without the ones whose download step raised.  The task in
\* process_day has completed its download step.
C20_OrderPreservation ==
    /\ IsPrefix(started, TasksOf(puts))
    /\ IsPrefix(TasksOf(puts), downloaded)
    /\ Len(downloaded) - Len(TasksOf(puts)) <= 1
    /\ downloaded = SelectSeq(TasksOf(Settled), LAMBDA t : t \notin Range(dlog))
    /\ ppc = "process_day" => ptask \in Range(downloaded)

\* The first and the third work item were processed in that order, with the
\* second dropped by a failed download.
C20_Witness ==
    /\ Len(started) >= 2
    /\ started[1] = Task(1)
    /\ started[2] = Task(3)
    /\ dlog = <<Task(2)>>

(***************************************************************************)
(* Properties of a ProcessingLog without database                          *)
(***************************************************************************)
\* C12: while database_path is None no database file exists and the table
\* holds no row, whatever was constructed, captured or finalized; the only
\* effect of a capture context is that the ProcessingLog is among the
\* logger's handlers while the context is open.
C12_NoDatabaseNoStore ==
    database_path = None =>
        /\ db_exists = FALSE
        /\ files = <<>>
        /\ handlers = IF logs # <<>> /\ ~Idle THEN <<logs[1].id>> ELSE <<>>

\* Without database, a capture context in which text was logged was left and
\* finalize was called.
C12_Witness ==
    /\ database_path = None
    /\ last.op = "finalize"
    /\ logs[1].phase = "closed"
    /\ logs[1].heard # <<>>
    /\ handlers = <<>>

(***************************************************************************)
(* Two processes writing to one database (ccic/processing.py)              *)
(*                                                                         *)
(* Each process has its own ProcessingLog and opens its own connection in  *)
(* finish_logging and in finalize.  The sqlite3 module executes a SELECT   *)
(* outside a transaction and opens one before an UPDATE, which the end of  *)
(* the `with` block commits: the statements of the two processes are       *)
(* atomic one by one and interleave in any order.                          *)
(***************************************************************************)
Procs == {1, 2}

\* What a process is about to do: leave the capture context of its
\* ProcessingLog, in which it has logged one record, or call finalize.
ProcOps(p) ==
    { [op |-> "finish_logging", input_file |-> f, attached |-> TRUE,
       buffer |-> Message(p) \o <<10>>, args |-> <<>>, pc |-> "select",
       fetched |-> <<>>] : f \in Filenames }
    \cup
    { [op |-> "finalize", input_file |-> f, attached |-> FALSE,
       buffer |-> <<>>, args |-> <<r, o>>, pc |-> "select",
       fetched |-> <<>>] : f \in Filenames, r \in ResultSets, o \in OutputFiles }

\* The blobs earlier attempts may have left in the rows.
EarlierLogs == { <<>>, Encode(Message(3) \o <<10>>) }

\* The table after both ProcessingLog objects were constructed.
TableOf(ps, earlier) ==
    [n \in { ps[p].input_file : p \in Procs } |->
        [NewRow(n, 1) EXCEPT !.log = earlier]]

(***************************************************************************)
(* The state after each of the two processes has constructed its           *)
(* ProcessingLog on the database.                                          *)
(***************************************************************************)
InitLogConcurrent ==
    /\ PipelineIdle
    /\ CloudIdle
    /\ PadIdle
    /\ DriverIdle
    /\ MaskIdle
    /\ DatesIdle
    /\ RemoteIdle
    /\ database_path = Path("ccic_processing.db")
    /\ db_exists = TRUE
    /\ handlers = <<>>
    /\ logs = <<>>
    /\ nlogs = 0
    /\ nemit = 0
    /\ last = NoOp
    /\ prev = NoOp
    /\ procs \in [Procs -> UNION { ProcOps(p) : p \in Procs }]
    /\ \A p \in Procs : procs[p] \in ProcOps(p)
    /\ \E earlier \in EarlierLogs : files = TableOf(procs, earlier)
    /\ snapshot = files

\* finish_logging: removeHandler; SELECT log FROM files WHERE name=?
FinishLoggingSelect(p) ==
    /\ procs[p].op = "finish_logging"
    /\ procs[p].pc = "select"
    /\ procs' = [procs EXCEPT ![p].attached = FALSE,
                              ![p].fetched = files[procs[p].input_file].log,
                              ![p].pc = "update"]
    /\ UNCHANGED <<database_path, db_exists, files, handlers, logs, nlogs,
                   nemit, last, prev, snapshot>>
    /\ UNCHANGED concFrame

\* finish_logging: UPDATE files SET log=? WHERE name=?, and the commit
FinishLoggingUpdate(p) ==
    /\ procs[p].op = "finish_logging"
    /\ procs[p].pc = "update"
    /\ files' = [files EXCEPT ![procs[p].input_file].log =
                                 AppendLog(procs[p].fetched, procs[p].buffer)]
    /\ procs' = [procs EXCEPT ![p].pc = "done"]
    /\ UNCHANGED <<database_path, db_exists, handlers, logs, nlogs, nemit,
                   last, prev, snapshot>>
    /\ UNCHANGED concFrame

\* finalize: SELECT * FROM files WHERE name=?
FinalizeSelect(p) ==
    /\ procs[p].op = "finalize"
    /\ procs[p].pc = "select"
    /\ procs' = [procs EXCEPT ![p].fetched = Rows(files, procs[p].input_file),
                              ![p].pc = "update"]
    /\ UNCHANGED <<database_path, db_exists, files, handlers, logs, nlogs,
                   nemit, last, prev, snapshot>>
    /\ UNCHANGED concFrame

\* finalize: if res.fetchone() is not None: UPDATE files SET success=?, ...,
\* and the commit
FinalizeUpdate(p) ==
    /\ procs[p].op = "finalize"
    /\ procs[p].pc = "update"
    /\ IF procs[p].fetched # <<>> /\ procs[p].input_file \in DOMAIN files
       THEN files' = [files EXCEPT ![procs[p].input_file] =
                         FinalizeRow(@, procs[p].args[1], procs[p].args[2])]
       ELSE UNCHANGED files
    /\ procs' = [procs EXCEPT ![p].pc = "done"]
    /\ UNCHANGED <<database_path, db_exists, handlers, logs, nlogs, nemit,
                   last, prev, snapshot>>
    /\ UNCHANGED concFrame

NextLogConcurrent ==
    \E p \in Procs :
        \/ FinishLoggingSelect(p)
        \/ FinishLoggingUpdate(p)
        \/ FinalizeSelect(p)
        \/ FinalizeUpdate(p)

SpecLogConcurrent == InitLogConcurrent /\ [][NextLogConcurrent]_vars

(***************************************************************************)
(* Properties of two processes writing to one database                     *)
(***************************************************************************)
\* The table after the whole operation of a process, run on its own.
RunAlone(table, proc) ==
    IF proc.op = "finish_logging"
    THEN [table EXCEPT ![proc.input_file].log = AppendLog(@, proc.buffer)]
    ELSE [table EXCEPT ![proc.input_file] =
             FinalizeRow(@, proc.args[1], proc.args[2])]

\* The tables the two operations leave when one runs after the other.
SerialResults ==
    { RunAlone(RunAlone(snapshot, procs[1]), procs[2]),
      RunAlone(RunAlone(snapshot, procs[2]), procs[1]) }

\* C11: when two processes have run finish_logging or finalize at the same
\* time, on the same or on different filenames, the table is the one that
\* running the two operations one after the other, in one of the two orders,
\* leaves: no captured text and no finalize update is lost.
C11_ConcurrentOperationsSerializable ==
    (\A p \in Procs : procs[p].pc = "done") => files \in SerialResults

(***************************************************************************)
(* Cloud classification: determine_cloud_class and the cloud_type target   *)
(* of process_input (ccic/processing.py)                                   *)
(*                                                                         *)
(* A probability is an integer number of thousandths.  A tensor is a       *)
(* sequence of elements, each the vector of its values along the class     *)
(* axis.                                                                   *)
(***************************************************************************)
\* The largest number of channels along the class axis.
MaxChannels == 3

\* The largest number of tiles in the row of tiles.
MaxTiles == 2

\* class_probs[...] < 0.638
NoCloudThreshold == 638

\* cloud_type[-1][-1][ind, ..., invalid[ind]] = -1
MaskedValue == -1000

\* The values of the elements of a tensor.
ProbValues == {MaskedValue, 100, 200, 300, 500, 637, 638, 700}

\* The vectors along the class axis, with two or more channels.
Vectors == UNION { [1..k -> ProbValues] : k \in 2..MaxChannels }

\* The vectors of the tensors of two elements: the ones the documentation of
\* the function gives as examples, one at the threshold and a masked one.
PairVectors ==
    { <<700, 100, 200>>, <<200, 500, 300>>, <<638, 200, 200>>,
      <<637, 200, 700>>, <<MaskedValue, MaskedValue, MaskedValue>> }

RECURSIVE SumOf(_)
SumOf(v) == IF v = <<>> THEN 0 ELSE Head(v) + SumOf(Tail(v))

\* The probabilities of no cloud in the outputs of the model.
NoCloudValues == {100, 637, 638, 700}

\* The outputs of the model for a pixel with k cloud classes: channel 0 is
\* the probability of no cloud, the channels 1..k are the probabilities of
\* the classes 1..k, one of which holds the rest of the probability.
ClassOutputs(k) ==
    { [c \in 1..(k + 1) |-> IF c = 1 THEN p
                            ELSE IF c = d + 1 THEN 1000 - p ELSE 0] :
        p \in NoCloudValues, d \in 1..k }

\* exp(x), for the probabilities x that the outputs give to a class.
Exp(x) ==
    CASE x = 0   -> 1000
      [] x = 300 -> 1350
      [] x = 362 -> 1436
      [] x = 363 -> 1438
      [] x = 900 -> 2460

\* torch.softmax along the class axis: exp(v[c]) / sum of exp(v[d]).
Softmax(v) ==
    [c \in DOMAIN v |->
        (Exp(v[c]) * 1000) \div SumOf([d \in DOMAIN v |-> Exp(v[d])])]

\* np.argmax: the zero-based index of the first largest value.
ArgMax(v) ==
    (CHOOSE i \in DOMAIN v :
        /\ \A j \in DOMAIN v : v[j] <= v[i]
        /\ \A j \in 1..(i - 1) : v[j] < v[i]) - 1

\* A threshold of 0.5, as the docstring of determine_cloud_class has it.
CloudMask_Half(probs) == probs[1] < 500

\* cloud_mask = class_probs[:, 0] < 0.638
CloudMask(probs) == probs[1] < NoCloudThreshold

\* types = zeros; prob_types = argmax(class_probs[:, 1:]) + 1 in uint8;
\* types[cloud_mask] = prob_types[cloud_mask]
determine_cloud_class(tensor) ==
    [e \in DOMAIN tensor |->
        IF CloudMask(tensor[e])
        THEN ((ArgMax(Tail(tensor[e])) % 256) + 1) % 256
        ELSE 0]

\* cloud_type[-1][-1][ind, ..., invalid[ind]] = -1: every channel of an
\* invalid pixel is set to -1.
MaskTile(tile, invalid_t) ==
    [e \in DOMAIN tile |->
        IF invalid_t[e] THEN [c \in DOMAIN tile[e] |-> MaskedValue] ELSE tile[e]]

\* tiler.assemble of one row of tiles that do not overlap: every pixel of the
\* result is the pixel of the one tile that covers it.
RECURSIVE Assemble(_)
Assemble(tiles) ==
    IF tiles = <<>> THEN <<>> ELSE Head(tiles) \o Assemble(Tail(tiles))

(***************************************************************************)
(* Either determine_cloud_class is about to be called on a tensor, or      *)
(* process_input is about to collect the cloud_type target of a row of     *)
(* tiles of one pixel each, all of the same number of classes.             *)
(***************************************************************************)
InitCloud ==
    /\ OthersIdle("cloud")
    /\ cloud_type = <<>>
    /\ types = <<>>
    /\ \/ /\ cpc = "call"
          /\ cloud_class = <<>>
          /\ softmaxed = <<>>
          /\ invalid = <<>>
          /\ class_probs \in { <<v>> : v \in Vectors }
                               \cup [1..2 -> PairVectors]
       \/ /\ cpc = "tiles"
          /\ class_probs = <<>>
          /\ softmaxed = <<>>
          /\ \E n \in 1..MaxTiles, k \in 2..MaxChannels :
                /\ cloud_class \in [1..n -> { <<v>> : v \in ClassOutputs(k) }]
                /\ invalid \in [1..n -> { <<b>> : b \in BOOLEAN }]

\* types = determine_cloud_class(class_probs)
DetermineCloudClass ==
    /\ cpc = "call"
    /\ types' = determine_cloud_class(class_probs)
    /\ cpc' = "returned"
    /\ UNCHANGED <<cloud_class, softmaxed, invalid, cloud_type, class_probs>>
    /\ UNCHANGED cloudFrame

\* elif target == "cloud_type": the softmax of the channels 1 onward of the
\* tile's output is appended and the pixels of the invalid mask set to -1
AppendCloudType ==
    /\ cpc = "tiles"
    /\ Len(cloud_type) < Len(cloud_class)
    /\ LET j == Len(cloud_type) + 1
           ct == [e \in DOMAIN cloud_class[j] |->
                     Softmax(Tail(cloud_class[j][e]))]
       IN  /\ softmaxed' = Append(softmaxed, ct)
           /\ cloud_type' = Append(cloud_type, MaskTile(ct, invalid[j]))
    /\ UNCHANGED <<cloud_class, invalid, class_probs, types, cpc>>
    /\ UNCHANGED cloudFrame

\* cloud_type = determine_cloud_class(tiler.assemble(cloud_type))
AssembleCloudType ==
    /\ cpc = "tiles"
    /\ Len(cloud_type) = Len(cloud_class)
    /\ class_probs' = Assemble(cloud_type)
    /\ types' = determine_cloud_class(Assemble(cloud_type))
    /\ cpc' = "done"
    /\ UNCHANGED <<cloud_class, softmaxed, invalid, cloud_type>>
    /\ UNCHANGED cloudFrame

NextCloud ==
    \/ DetermineCloudClass
    \/ AppendCloudType
    \/ AssembleCloudType

SpecCloud == InitCloud /\ [][NextCloud]_vars

(***************************************************************************)
(* Properties of the cloud classification                                  *)
(***************************************************************************)
\* The rule of class selection, with the class for [0.2, 0.5, 0.3] as given:
\* an element is 0 exactly when the value of channel 0 is >= 0.638 and
\* otherwise 1 + the zero-based index of the first largest value among
\* channels 1 onward.
ClassSelection(example) ==
    cpc = "returned" =>
        /\ DOMAIN types = DOMAIN class_probs
        /\ \A e \in DOMAIN class_probs :
              LET probs == class_probs[e]
                  rest == [c \in 1..(Len(probs) - 1) |-> probs[c + 1]]
              IN  /\ types[e] = 0 <=> probs[1] >= 638
                  /\ types[e] # 0 =>
                        /\ types[e] \in 1..Len(rest)
                        /\ \A c \in DOMAIN rest : rest[c] <= rest[types[e]]
                        /\ \A c \in 1..(types[e] - 1) : rest[c] < rest[types[e]]
                  /\ probs = <<700, 100, 200>> => types[e] = 0
                  /\ probs = <<200, 500, 300>> => types[e] = example

C14_MaskedPixelsUndetermined ==
    /\ \A j \in DOMAIN cloud_type :
          invalid[j][1] => \A c \in DOMAIN cloud_type[j][1] :
                               cloud_type[j][1][c] = MaskedValue
    /\ cpc = "done" =>
          \A j \in DOMAIN invalid : invalid[j][1] => types[j] \notin 1..8

(***************************************************************************)
(* Padding of a tile in the tile loop of process_input                     *)
(* (ccic/processing.py)                                                    *)
(*                                                                         *)
(* A tile is a list of rows of pixels; the pixel in row r and column c of  *)
(* the tile the tiler returns holds <<r, c>>.                              *)
(***************************************************************************)
\* How far below a multiple of 32 the sides of a tile are, at most.
MaxShort == 3

\* calculate_padding(x_t, 32)
AlignFactor == 32

\* The sides of the tiles.
TileSides == (AlignFactor - MaxShort)..AlignFactor

\* The tile of h rows and w columns.
TileOf(h, w) == [r \in 1..h |-> [c \in 1..w |-> <<r, c>>]]

\* x.shape[-2] and x.shape[-1]
Height(x) == Len(x)
Width(x) == IF x = <<>> THEN 0 ELSE Len(x[1])

\* calculate_padding(x, factor): the paddings (left, right, top, bottom)
\* that make each of the two sides the smallest multiple of factor that is
\* not less than it.
CalculatePadding(x, factor) ==
    LET columns == (-Width(x)) % factor
        rows == (-Height(x)) % factor
    IN  { <<l, columns - l, t, rows - t>> : l \in 0..columns, t \in 0..rows }

\* The zero-based index that reflection at the two ends of 0..(n - 1) gives
\* for the index i.
Reflect(i, n) == IF i < 0 THEN -i ELSE IF i >= n THEN 2 * (n - 1) - i ELSE i

\* nn.functional.pad(x, (left, right, top, bottom), mode="reflect")
ReflectPad(x, p) ==
    [r \in 1..(Height(x) + p[3] + p[4]) |->
        [c \in 1..(Width(x) + p[1] + p[2]) |->
            x[Reflect(r - 1 - p[3], Height(x)) + 1]
             [Reflect(c - 1 - p[1], Width(x)) + 1]]]

\* slice(start, stop)
Slice(start, stop) == <<start, stop>>

\* Slices that take the column padding for the rows and the row padding for
\* the columns.
InverseSlices_Swapped(p, padded) ==
    << Slice(p[1], Height(padded) - p[2]), Slice(p[3], Width(padded) - p[4]) >>

\* slices = [slice(padding[2], x_t.shape[-2] - padding[3]),
\*           slice(padding[0], x_t.shape[-1] - padding[1])]
InverseSlices(p, padded) ==
    << Slice(p[3], Height(padded) - p[4]), Slice(p[1], Width(padded) - p[2]) >>

\* seq[start:stop] for 0 <= start and 0 <= stop
Take(seq, sl) ==
    LET stop == IF sl[2] > Len(seq) THEN Len(seq) ELSE sl[2]
    IN  SubSeq(seq, sl[1] + 1, stop)

\* x[..., slices[0], slices[1]]
Crop(x, sls) == [r \in DOMAIN Take(x, sls[1]) |-> Take(Take(x, sls[1])[r], sls[2])]

\* The keys of the outputs of the model.
OutputKeys == {"tiwp", "cloud_class"}

\* mrnn.predict(x_t): an output for every key, as high and as wide as the
\* input, whose pixels depend on the pixels of the input.
Predict(x) ==
    [key \in OutputKeys |->
        [r \in DOMAIN x |-> [c \in DOMAIN x[r] |-> <<key, x[r][c]>>]]]

(***************************************************************************)
(* The state after x_t = tiler.get_tile(i, j)                              *)
(***************************************************************************)
InitPad ==
    /\ OthersIdle("pad")
    /\ \E h \in TileSides, w \in TileSides : x_t = TileOf(h, w)
    /\ x_orig = x_t
    /\ padding = None
    /\ slices = None
    /\ y_pred = <<>>
    /\ padpc = "pad"

\* if (x_t.shape[-2] % 32 > 0) or (x_t.shape[-1] % 32 > 0): ... else: ...
PadTile ==
    /\ padpc = "pad"
    /\ IF Height(x_t) % AlignFactor > 0 \/ Width(x_t) % AlignFactor > 0
       THEN \E p \in CalculatePadding(x_t, AlignFactor) :
               /\ padding' = p
               /\ x_t' = ReflectPad(x_t, p)
               /\ slices' = InverseSlices(p, ReflectPad(x_t, p))
       ELSE /\ slices' = None
            /\ UNCHANGED <<x_t, padding>>
    /\ padpc' = "predict"
    /\ UNCHANGED <<x_orig, y_pred>>
    /\ UNCHANGED padFrame

\* y_pred = mrnn.predict(x_t)
PredictTile ==
    /\ padpc = "predict"
    /\ y_pred' = Predict(x_t)
    /\ padpc' = "crop"
    /\ UNCHANGED <<x_t, x_orig, padding, slices>>
    /\ UNCHANGED padFrame

\* if slices is not None: x_t and every value of y_pred are cropped
RemovePadding ==
    /\ padpc = "crop"
    /\ IF slices # None
       THEN /\ x_t' = Crop(x_t, slices)
            /\ y_pred' = [key \in DOMAIN y_pred |-> Crop(y_pred[key], slices)]
       ELSE UNCHANGED <<x_t, y_pred>>
    /\ padpc' = "done"
    /\ UNCHANGED <<x_orig, padding, slices>>
    /\ UNCHANGED padFrame

NextPad ==
    \/ PadTile
    \/ PredictTile
    \/ RemovePadding

SpecPad == InitPad /\ [][NextPad]_vars

(***************************************************************************)
(* Properties of the padding                                               *)
(***************************************************************************)
\* Both sides of the tile the tiler returned are multiples of 32.
Aligned == Height(x_orig) % 32 = 0 /\ Width(x_orig) % 32 = 0

\* C15: a tile whose sides are not both divisible by 32 is padded by
\* reflection with the padding (left, right, top, bottom), and after the
\* crop the tile is again the tile before padding, pixel for pixel, and every
\* output of the model is as high and as wide as that tile.  A tile whose
\* sides are both divisible by 32 is neither padded nor cropped.
C15_PaddingRoundTrip ==
    /\ padpc \in {"predict", "crop"} =>
          IF Aligned
          THEN padding = None /\ slices = None /\ x_t = x_orig
          ELSE /\ padding \in CalculatePadding(x_orig, 32)
               /\ Height(x_t) = Height(x_orig) + padding[3] + padding[4]
               /\ Width(x_t) = Width(x_orig) + padding[1] + padding[2]
               /\ \A r \in 1..Height(x_orig), c \in 1..Width(x_orig) :
                     x_t[r + padding[3]][c + padding[1]] = x_orig[r][c]
               /\ slices # None
    /\ padpc = "done" =>
          /\ x_t = x_orig
          /\ \A key \in OutputKeys :
                /\ Height(y_pred[key]) = Height(x_orig)
                /\ Width(y_pred[key]) = Width(x_orig)
                /\ \A r \in DOMAIN y_pred[key] :
                      Len(y_pred[key][r]) = Width(x_orig)
          /\ Aligned => (padding = None /\ slices = None)

\* A tile of 30 rows and 31 columns was padded by one row above, one row
\* below and one column on the left, and cropped again.
C15_Witness ==
    /\ padpc = "done"
    /\ Height(x_orig) = 30
    /\ Width(x_orig) = 31
    /\ padding = <<1, 0, 1, 1>>
    /\ x_t = x_orig

(***************************************************************************)
(* The tile loop of process_input (ccic/processing.py)                     *)
(***************************************************************************)
\* The largest number of rows and of columns of tiles.
MaxGrid == 2

REGRESSION_TARGETS == {"tiwp", "tiwp_fpavg", "tiwc"}
SCALAR_TARGETS == {"tiwp", "tiwp_fpavg"}

\* retrieval_settings.targets: the default list, two shorter ones and a list
\* that names a target twice (the list is taken as given).
TargetLists ==
    { <<"tiwp", "tiwp_fpavg", "tiwc", "cloud_prob_2d", "cloud_prob_3d",
        "cloud_type">>,
      <<"tiwc", "cloud_type">>,
      <<"tiwp">>,
      <<"tiwp", "tiwp">> }

\* The lists a target is collected in: <<list, target>>.
Accumulators(target) ==
    IF target \in REGRESSION_TARGETS
    THEN {<<"means", target>>}
         \cup (IF target \in SCALAR_TARGETS
               THEN {<<"conf_ints", target>>, <<"p_non_zeros", target>>}
               ELSE {})
    ELSE IF target \in {"cloud_prob_2d", "cloud_prob_3d", "cloud_type"}
         THEN {<<target, target>>}
         ELSE {}

\* The lists of the first n targets.
AccumulatorsOfFirst(targets, n) ==
    UNION { Accumulators(targets[k]) : k \in 1..n }

\* How many of the first n entries of targets collect into the list key:
\* the loops `for target in targets` run once per entry of the list.
Occurrences(targets, n, key) ==
    Cardinality({ k \in 1..n : key \in Accumulators(targets[k]) })

\* Insert empty list into list of row results, once per entry of targets.
AppendRow(a, targets) ==
    [key \in DOMAIN a |->
        a[key] \o [k \in 1..Occurrences(targets, Len(targets), key) |-> <<>>]]

\* The result of a tile appended to the last row of the list of each of the
\* first n entries of targets.
AppendTile(a, targets, n, tile) ==
    [key \in DOMAIN a |->
        IF Occurrences(targets, n, key) > 0
        THEN [a[key] EXCEPT ![Len(a[key])] =
                 @ \o [k \in 1..Occurrences(targets, n, key) |-> tile]]
        ELSE a[key]]

\* An altitude grid that starts at the ground.
Altitude_FromGround == [k \in 1..20 |-> (k - 1) * 1000]

\* np.arange(20) * 1e3 + 500.0, in metres
Altitude == [k \in 1..20 |-> (k - 1) * 1000 + 500]

\* The names of the variables of the Dataset: <<target>>, <<"p_", target>>,
\* <<target, "_ci">>, the cloud variables that were collected, the altitude
\* and the inpainted mask.
DataVars(a, settings) ==
    { <<key[2]>> : key \in { k \in DOMAIN a : k[1] = "means" } }
    \cup { <<"p_", key[2]>> : key \in { k \in DOMAIN a : k[1] = "p_non_zeros" } }
    \cup { <<key[2], "_ci">> : key \in { k \in DOMAIN a : k[1] = "conf_ints" } }
    \cup { <<key[2]>> : key \in { k \in DOMAIN a : k[1] = k[2] /\ Len(a[k]) > 0 } }
    \cup { <<"altitude">> }
    \cup (IF settings.inpainted_mask THEN { <<"inpainted">> } ELSE {})

\* A loop that drops a tile whose step raised and goes on.
AfterStep_Swallow(outcome, next) == next

\* Where process_input is after a step returned or raised: nothing in it
\* catches an exception.
AfterStep(outcome, next) == IF outcome = "raise" THEN "raised" ELSE next

(***************************************************************************)
(* The state after process_input has constructed the Tiler and the empty   *)
(* lists.                                                                  *)
(***************************************************************************)
InitDriver ==
    /\ OthersIdle("driver")
    /\ retrieval_settings \in [targets : TargetLists, inpainted_mask : BOOLEAN]
    /\ tiler \in [M : 1..MaxGrid, N : 1..MaxGrid]
    /\ tile_i = 0
    /\ tile_j = 0
    /\ acc = [key \in AccumulatorsOfFirst(retrieval_settings.targets,
                                          Len(retrieval_settings.targets))
                |-> <<>>]
    /\ visited = <<>>
    /\ dataset = None
    /\ raised_at = None
    /\ drpc = "row"

\* for i in range(tiler.M): for target in targets: ... .append([])
StartRow ==
    /\ drpc = "row"
    /\ acc' = AppendRow(acc, retrieval_settings.targets)
    /\ tile_j' = 0
    /\ drpc' = "get_tile"
    /\ UNCHANGED <<retrieval_settings, tiler, tile_i, visited, dataset,
                   raised_at>>
    /\ UNCHANGED driverFrame

\* A step of the loop body that only passes the tile on.
Step(at, next) ==
    /\ drpc = at
    /\ \E outcome \in {"return", "raise"} :
          /\ drpc' = AfterStep(outcome, next)
          /\ raised_at' = IF outcome = "raise"
                          THEN <<tile_i, tile_j, at>> ELSE raised_at
    /\ UNCHANGED <<retrieval_settings, tiler, tile_i, tile_j, acc, dataset>>
    /\ UNCHANGED driverFrame

\* x_t = tiler.get_tile(i, j)
GetTile ==
    /\ Step("get_tile", "to_device")
    /\ visited' = Append(visited, <<tile_i, tile_j>>)

\* x_t = x_t.to(device)
ToDevice == Step("to_device", "pad") /\ UNCHANGED visited

\* calculate_padding and nn.functional.pad
PadStep == Step("pad", "predict") /\ UNCHANGED visited

\* y_pred = mrnn.predict(x_t)
PredictStep == Step("predict", "crop") /\ UNCHANGED visited

\* Remove padding if has been applied.
CropStep == Step("crop", "mask") /\ UNCHANGED visited

\* invalid = get_invalid_mask(x_t)
MaskStep == Step("mask", "aggregate") /\ UNCHANGED visited

\* for target in targets: the result of the tile is appended to the lists of
\* the target; an exception leaves the lists of the targets before it
\* appended to.  Then the next j, the next i or the end of the loops.
Aggregate ==
    /\ drpc = "aggregate"
    /\ LET targets == retrieval_settings.targets
           tile == <<tile_i, tile_j>>
           more_j == tile_j + 1 < tiler.N
           more_i == tile_i + 1 < tiler.M
           next == IF more_j THEN "get_tile"
                   ELSE IF more_i THEN "row" ELSE "assemble"
       IN  \E outcome \in {"return", "raise"} :
              /\ drpc' = AfterStep(outcome, next)
              /\ IF outcome = "raise"
                 THEN /\ \E n \in 0..(Len(targets) - 1) :
                            acc' = AppendTile(acc, targets, n, tile)
                      /\ raised_at' = <<tile_i, tile_j, "aggregate">>
                      /\ UNCHANGED <<tile_i, tile_j>>
                 ELSE /\ acc' = AppendTile(acc, targets, Len(targets), tile)
                      /\ tile_j' = IF more_j THEN tile_j + 1 ELSE tile_j
                      /\ tile_i' = IF ~more_j /\ more_i THEN tile_i + 1
                                                         ELSE tile_i
                      /\ UNCHANGED raised_at
    /\ UNCHANGED <<retrieval_settings, tiler, visited, dataset>>
    /\ UNCHANGED driverFrame

\* results = xr.Dataset(); ...; results["altitude"] = ...; return results
Return ==
    /\ drpc = "assemble"
    /\ dataset' = [data_vars |-> DataVars(acc, retrieval_settings),
                   altitude |-> Altitude]
    /\ drpc' = "returned"
    /\ UNCHANGED <<retrieval_settings, tiler, tile_i, tile_j, acc, visited,
                   raised_at>>
    /\ UNCHANGED driverFrame

NextDriver ==
    \/ StartRow
    \/ GetTile
    \/ ToDevice
    \/ PadStep
    \/ PredictStep
    \/ CropStep
    \/ MaskStep
    \/ Aggregate
    \/ Return

SpecDriver == InitDriver /\ [][NextDriver]_vars

(***************************************************************************)
(* Properties of process_input                                             *)
(***************************************************************************)
\* C16 as claimed: the altitude coordinate of the result has 20 levels, the
\* first at 500 m, consecutive levels 500 m apart.
C16_AsClaimed ==
    dataset # None =>
        /\ Len(dataset.altitude) = 20
        /\ \A k \in 0..19 : dataset.altitude[k + 1] = 500 + 500 * k

\* C16: the altitude coordinate of the result has exactly 20 levels, the
\* first at 500 m, with consecutive levels 1000 m apart: level k, k = 0..19,
\* is at 500 + 1000 * k metres.
C16_AltitudeGrid ==
    dataset # None =>
        /\ <<"altitude">> \in dataset.data_vars
        /\ Len(dataset.altitude) = 20
        /\ dataset.altitude[1] = 500
        /\ \A k \in 1..19 : dataset.altitude[k + 1] - dataset.altitude[k] = 1000
        /\ \A k \in 0..19 : dataset.altitude[k + 1] = 500 + 1000 * k

\* process_input has returned the Dataset of a retrieval with the profile
\* target tiwc.
C16_Witness ==
    /\ drpc = "returned"
    /\ dataset # None
    /\ <<"tiwc">> \in dataset.data_vars

\* The tiles of a grid with n columns in row-major order, up to tile (i, j).
TilesUpTo(i, j, n) == [k \in 1..(i * n + j + 1) |-> <<(k - 1) \div n, (k - 1) % n>>]

\* C17: when a step for a tile has raised, process_input has ended with the
\* exception, has returned no Dataset, and the tiles it has extracted are
\* those up to the tile whose step raised: no later tile is processed.
C17_TileFailureAborts ==
    /\ drpc = "raised" <=> raised_at # None
    /\ raised_at # None =>
          /\ dataset = None
          /\ visited = TilesUpTo(raised_at[1], raised_at[2], tiler.N)
    /\ dataset # None => drpc = "returned"

\* The model call raised for the second of four tiles, after the results of
\* the first were collected.
C17_Witness ==
    /\ tiler = [M |-> 2, N |-> 2]
    /\ drpc = "raised"
    /\ raised_at = <<0, 1, "predict">>
    /\ \E key \in DOMAIN acc : acc[key] = << << <<0, 0>> >> >>
    /\ dataset = None

(***************************************************************************)
(* get_invalid_mask (ccic/processing.py)                                   *)
(*                                                                         *)
(* The input is one batch element: a square tile of pixels, each the tuple *)
(* of its channels in tenths.  A mask is the set of the zero-based         *)
(* <<row, column>> at which it is True.                                    *)
(***************************************************************************)
\* The side of the tile.
TileSide == 20

\* The largest side of the block of missing pixels.
MaxSide == 18

\* x_in[ind] > -1.4
MissingThreshold == -14

\* The value a MinMax normalizer uses for missing inputs, -1.5.
MissingValue == -15

\* np.pad(mask, ((8, 8), (8, 8)), mode="reflect") and [8:-8, 8:-8]
PadWidth == 8

\* binary_closing(mask, iterations=8, border_value=0)
ClosingIterations == 8

\* A pixel with one channel missing and one valid, and a pixel with every
\* channel missing.
ValidPixel == <<MissingValue, 5>>
MissingPixel == <<MissingValue, MissingValue>>

\* The pixels of an array of the given shape.
Grid(shape) == (0..(shape[1] - 1)) \X (0..(shape[2] - 1))

\* The pixels of the block b = <<row, column, side>>.
BlockPixels(b) == (b[1]..(b[1] + b[3] - 1)) \X (b[2]..(b[2] + b[3] - 1))

\* The blocks: single pixels on the diagonal of the tile and squares of 16
\* and more pixels a side anywhere in the tile.
Blocks ==
    { <<r, r, 1>> : r \in 0..(TileSide - 1) }
    \cup UNION { { <<r, c, s>> : r \in 0..(TileSide - s),
                                 c \in 0..(TileSide - s) } : s \in 16..MaxSide }

\* The tile that is valid everywhere except in the block b.
TileWith(b) ==
    [p \in Grid(<<TileSide, TileSide>>) |->
        IF p \in BlockPixels(b) THEN MissingPixel ELSE ValidPixel]

\* np.any(x > -1.4, axis=0)
AnyAbove(channels) ==
    \E c \in DOMAIN channels : channels[c] > MissingThreshold

\* np.pad(m, ((w, w), (w, w)), mode="reflect")
PadMask(m, shape, w) ==
    { p \in Grid(<<shape[1] + 2 * w, shape[2] + 2 * w>>) :
        <<Reflect(p[1] - w, shape[1]), Reflect(p[2] - w, shape[2])>> \in m }

\* generate_binary_structure(2, 1): a pixel and its four neighbours.
Structure(p) ==
    { p, <<p[1] - 1, p[2]>>, <<p[1] + 1, p[2]>>,
         <<p[1], p[2] - 1>>, <<p[1], p[2] + 1>> }

\* One iteration of binary_dilation with border_value=0.
BinaryDilation(m, shape) == { p \in Grid(shape) : Structure(p) \cap m # {} }

\* An erosion that removes nothing.
BinaryErosion_Skip(m, shape) == m

\* One iteration of binary_erosion with border_value=0.
BinaryErosion(m, shape) == { p \in m : Structure(p) \subseteq m }

\* ~mask[w:-w, w:-w]
CropInvert(m, shape, w) ==
    { p \in Grid(<<shape[1] - 2 * w, shape[2] - 2 * w>>) :
        <<p[1] + w, p[2] + w>> \notin m }

(***************************************************************************)
(* get_invalid_mask is called on a tile with one block of missing pixels.  *)
(***************************************************************************)
InitMask ==
    /\ OthersIdle("mask")
    /\ block \in Blocks
    /\ x_in = TileWith(block)
    /\ mask = {}
    /\ mask_shape = <<>>
    /\ iteration = 0
    /\ masks = {}
    /\ mpc = "any"

\* mask = np.any(x_in[ind] > -1.4, axis=0)
Presence ==
    /\ mpc = "any"
    /\ mask' = { p \in DOMAIN x_in : AnyAbove(x_in[p]) }
    /\ mask_shape' = <<TileSide, TileSide>>
    /\ mpc' = "pad"
    /\ UNCHANGED <<x_in, block, iteration, masks>>
    /\ UNCHANGED maskFrame

\* mask = np.pad(mask, ((8, 8), (8, 8)), mode="reflect")
Pad ==
    /\ mpc = "pad"
    /\ mask' = PadMask(mask, mask_shape, PadWidth)
    /\ mask_shape' = <<mask_shape[1] + 2 * PadWidth, mask_shape[2] + 2 * PadWidth>>
    /\ iteration' = 0
    /\ mpc' = "dilate"
    /\ UNCHANGED <<x_in, block, masks>>
    /\ UNCHANGED maskFrame

\* binary_closing: an iteration of the dilation
Dilate ==
    /\ mpc = "dilate"
    /\ mask' = BinaryDilation(mask, mask_shape)
    /\ iteration' = IF iteration + 1 = ClosingIterations THEN 0 ELSE iteration + 1
    /\ mpc' = IF iteration + 1 = ClosingIterations THEN "erode" ELSE "dilate"
    /\ UNCHANGED <<x_in, block, mask_shape, masks>>
    /\ UNCHANGED maskFrame

\* binary_closing: an iteration of the erosion
Erode ==
    /\ mpc = "erode"
    /\ mask' = BinaryErosion(mask, mask_shape)
    /\ iteration' = IF iteration + 1 = ClosingIterations THEN 0 ELSE iteration + 1
    /\ mpc' = IF iteration + 1 = ClosingIterations THEN "crop" ELSE "erode"
    /\ UNCHANGED <<x_in, block, mask_shape, masks>>
    /\ UNCHANGED maskFrame

\* [8:-8, 8:-8]; return ~np.stack(masks)
ReturnMask ==
    /\ mpc = "crop"
    /\ masks' = CropInvert(mask, mask_shape, PadWidth)
    /\ mpc' = "done"
    /\ UNCHANGED <<x_in, block, mask, mask_shape, iteration>>
    /\ UNCHANGED maskFrame

NextMask ==
    \/ Presence
    \/ Pad
    \/ Dilate
    \/ Erode
    \/ ReturnMask

SpecMask == InitMask /\ [][NextMask]_vars

(***************************************************************************)
(* Properties of get_invalid_mask                                          *)
(***************************************************************************)
\* The city-block distance of two pixels.
Distance(p, q) ==
    (IF p[1] > q[1] THEN p[1] - q[1] ELSE q[1] - p[1])
    + (IF p[2] > q[2] THEN p[2] - q[2] ELSE q[2] - p[2])

\* The pixels of the block b within a diamond of radius 8 (the pixels at
\* city-block distance 8 or less from a centre) that lies in the block.
Covered(b) ==
    LET centres == ((b[1] + 8)..(b[1] + b[3] - 9))
                   \X ((b[2] + 8)..(b[2] + b[3] - 9))
    IN  { p \in BlockPixels(b) : \E c \in centres : Distance(p, c) <= 8 }

\* The block has valid pixels on all four sides.
Surrounded(b) ==
    /\ b[1] >= 1
    /\ b[2] >= 1
    /\ b[1] + b[3] <= TileSide - 1
    /\ b[2] + b[3] <= TileSide - 1

\* C18 as claimed: the mask returned for a tile that is valid except in a
\* square block of 16x16 or more missing pixels is true at every pixel of
\* the block, and false at the pixels further than 8 pixels from it.
C18_AsClaimed ==
    (mpc = "done" /\ block[3] >= 16) =>
        /\ BlockPixels(block) \subseteq masks
        /\ \A p \in masks :
              \E q \in BlockPixels(block) : Distance(p, q) <= 8

\* C18: the mask returned for a tile that is valid except in a square block
\* of 17x17 or more missing pixels is true at every pixel of the block that
\* lies within a diamond of radius 8 inside the block, and false at every
\* pixel outside the block.  When the block has valid pixels on all sides
\* the mask is true at no other pixel: not at the corners of the block, and
\* nowhere for a block of 16x16 or of a single pixel.
C18_LargeMissingRegions ==
    mpc = "done" =>
        /\ block[3] >= 17 =>
              (Covered(block) # {} /\ Covered(block) \subseteq masks)
        /\ masks \subseteq BlockPixels(block)
        /\ Surrounded(block) => masks = Covered(block)

\* The mask of a tile with a block of 17x17 missing pixels is true at the
\* centre of the block and false at its corner.
C18_Witness ==
    /\ mpc = "done"
    /\ block = <<1, 1, 17>>
    /\ <<9, 9>> \in masks
    /\ <<1, 1>> \notin masks

\* The grid of tiler.M rows of tiler.N entries in which the entry of row i
\* and column j is the result of tile (i, j).
TileGrid(t) == [a \in 1..t.M |-> [b \in 1..t.N |-> <<a - 1, b - 1>>]]

\* C21: the tiles are extracted in row-major order, each tile of the grid at
\* most once and all of them when the loops have ended, and then, for every
\* list of targets, each list of results has exactly tiler.M rows of exactly
\* tiler.N entries, the entry of row i and column j being the result of
\* tile (i, j).
C21_AccumulatorGrid ==
    /\ IsPrefix(visited, TilesUpTo(tiler.M - 1, tiler.N - 1, tiler.N))
    /\ drpc \in {"assemble", "returned"} =>
          /\ visited = TilesUpTo(tiler.M - 1, tiler.N - 1, tiler.N)
          /\ \A key \in DOMAIN acc : acc[key] = TileGrid(tiler)

(***************************************************************************)
(* Properties of the cloud_type variable of process_input                  *)
(***************************************************************************)
\* C22: at every pixel that is not flagged invalid, the cloud_type of the
\* result is 0 exactly when the probability of no cloud in the output of the
\* model (channel 0 of cloud_class) is >= 0.638, and otherwise it is the
\* index 1..k of a most probable class among the channels 1..k of the output.
C22_EndToEndClassSelection ==
    cpc = "done" =>
        \A j \in DOMAIN cloud_class :
            ~invalid[j][1] =>
                LET output == cloud_class[j][1]
                IN  /\ types[j] = 0 <=> output[1] >= NoCloudThreshold
                    /\ types[j] # 0 =>
                          /\ types[j] \in 1..(Len(output) - 1)
                          /\ \A c \in 2..Len(output) :
                                output[c] <= output[types[j] + 1]

(***************************************************************************)
(* The dates of the work items of run                                      *)
(* (ccic/bin/run_validation_retrieval.py)                                  *)
(*                                                                         *)
(* A date is the record of its year, month and day.                        *)
(***************************************************************************)
\* The largest number of days given on the command line.
MaxDays == 2

\* args.year and args.month: a common year and a leap year, every month.
Years == {2023, 2024}
Months == 1..12

\* calendar.monthrange(year, month)[1]: the number of days of the month.
MonthRange(year, month) ==
    IF month = 2
    THEN IF year % 4 = 0 /\ (year % 100 # 0 \/ year % 400 = 0) THEN 29 ELSE 28
    ELSE IF month \in {4, 6, 9, 11} THEN 30 ELSE 31

\* The date one day (np.timedelta64(24 * 60 * 60, "s")) after a date.
NextDay(date) ==
    IF date.day < MonthRange(date.year, date.month)
    THEN [date EXCEPT !.day = @ + 1]
    ELSE IF date.month < 12
         THEN [year |-> date.year, month |-> date.month + 1, day |-> 1]
         ELSE [year |-> date.year + 1, month |-> 1, day |-> 1]

\* date + np.timedelta64(24 * 60 * 60, "s") * n
RECURSIVE AddDays(_, _)
AddDays(date, n) == IF n = 0 THEN date ELSE AddDays(NextDay(date), n - 1)

\* args.days (nargs="*"): no day, or up to MaxDays days out of the first, the
\* 15th and the last day of the month, in any order.
DayLists(year, month) ==
    UNION { [1..n -> {1, 15, MonthRange(year, month)}] : n \in 0..MaxDays }

(***************************************************************************)
(* The state when run has read its arguments.                              *)
(***************************************************************************)
InitDates ==
    /\ OthersIdle("dates")
    /\ \E year \in Years, month \in Months :
          run_args \in [year : {year}, month : {month},
                        days : DayLists(year, month)]
    /\ days = <<>>
    /\ dates = <<>>
    /\ sent = <<>>
    /\ rnpc = "days"

\* days = args.days; if len(days) == 0: days = list(range(1, n_days + 1))
RunDays ==
    /\ rnpc = "days"
    /\ days' = IF Len(run_args.days) = 0
               THEN [d \in 1..MonthRange(run_args.year, run_args.month) |-> d]
               ELSE run_args.days
    /\ rnpc' = "dates"
    /\ UNCHANGED <<run_args, dates, sent>>
    /\ UNCHANGED dateFrame

\* start = to_datetime64(datetime(year, month, 1));
\* dates = [start + np.timedelta64(24 * 60 * 60, "s") * day for day in days]
RunDates ==
    /\ rnpc = "dates"
    /\ LET start == [year |-> run_args.year, month |-> run_args.month,
                     day |-> 1]
       IN  dates' = [k \in DOMAIN days |-> AddDays(start, days[k])]
    /\ rnpc' = "put"
    /\ UNCHANGED <<run_args, days, sent>>
    /\ UNCHANGED dateFrame

\* for date in dates: download_queue.put((input_data, date))
RunPutDate ==
    /\ rnpc = "put"
    /\ Len(sent) < Len(dates)
    /\ sent' = Append(sent, Task(dates[Len(sent) + 1]))
    /\ UNCHANGED <<run_args, days, dates, rnpc>>
    /\ UNCHANGED dateFrame

NextDates ==
    \/ RunDays
    \/ RunDates
    \/ RunPutDate

SpecDates == InitDates /\ [][NextDates]_vars

(***************************************************************************)
(* Properties of the dates of the work items                               *)
(***************************************************************************)
\* The days of the month that the arguments of run ask for: the days given,
\* or every day of the month when none is given.
RequestedDays ==
    IF run_args.days = <<>>
    THEN [d \in 1..MonthRange(run_args.year, run_args.month) |-> d]
    ELSE run_args.days

\* C23: the work items run enqueues are, in order, one per requested day d,
\* dated day d of the given month of the given year; when no day is given
\* they are one per day of the month from day 1 to its last day, and no item
\* is dated outside the month.
C23_WorkItemDates ==
    run_args # <<>> =>
        /\ Len(sent) <= Len(RequestedDays)
        /\ rnpc = "put" /\ Len(sent) = Len(dates) =>
              Len(sent) = Len(RequestedDays)
        /\ \A k \in DOMAIN sent :
              /\ sent[k] = Task([year |-> run_args.year,
                                 month |-> run_args.month,
                                 day |-> RequestedDays[k]])
              /\ sent[k][2].year = run_args.year
              /\ sent[k][2].month = run_args.month

(***************************************************************************)
(* RemoteFile (ccic/processing.py)                                         *)
(*                                                                         *)
(* A folder is Path(name) and None is no folder; the path of a file in a   *)
(* folder is the folder followed by the filename.                          *)
(***************************************************************************)
\* The folders given as working_dir.
WorkingDirs == {None, Path("a"), Path("b")}

\* Path(working_dir) / filename
FileIn(working_dir, filename) == working_dir \o <<filename>>

\* get's working_dir after `if working_dir is None: working_dir =
\* self.working_dir`
GetWorkingDir ==
    IF get_dir = None THEN remote_file.working_dir ELSE get_dir

\* output_path = Path(working_dir) / self.filename, in get
OutputPath == FileIn(GetWorkingDir, remote_file.filename)

\* What get has returned or raised when it has done neither.
NotYet == [status |-> "none", path |-> None]

(***************************************************************************)
(* The state after RemoteFile(file_cls, filename, working_dir, thread_pool)*)
(* when get(working_dir) is about to be called: the download to the        *)
(* object's folder was submitted to the thread pool if both a thread pool  *)
(* and a folder were given.                                                *)
(***************************************************************************)
InitRemote ==
    /\ OthersIdle("remote")
    /\ \E filename \in Filenames, working_dir \in WorkingDirs,
          thread_pool \in BOOLEAN :
          /\ remote_file = [filename |-> filename,
                            working_dir |-> working_dir,
                            prefetch_task |-> thread_pool
                                              /\ working_dir # None]
          /\ prefetch = IF thread_pool /\ working_dir # None
                        THEN "pending" ELSE "none"
    /\ get_dir \in WorkingDirs
    /\ completed_at = {}
    /\ download_calls = <<>>
    /\ got = NotYet
    /\ rfpc = "get"

\* The thread pool runs file_cls.download(self.filename, output_path) with
\* the output_path of prefetch; the download completes or raises.
PrefetchDownload ==
    /\ prefetch = "pending"
    /\ LET output_path == FileIn(remote_file.working_dir, remote_file.filename)
       IN  /\ download_calls' = Append(download_calls,
                                       <<"prefetch", output_path>>)
           /\ \E outcome \in {"return", "raise"} :
                 IF outcome = "return"
                 THEN /\ prefetch' = "done"
                      /\ completed_at' = completed_at \cup {output_path}
                 ELSE /\ prefetch' = "failed"
                      /\ UNCHANGED completed_at
    /\ UNCHANGED <<remote_file, get_dir, got, rfpc>>
    /\ UNCHANGED remoteFrame

\* get, up to `if self.prefetch_task is not None`
GetCheck ==
    /\ rfpc = "get"
    /\ IF GetWorkingDir = None
       THEN /\ got' = [status |-> "ValueError", path |-> None]
            /\ rfpc' = "raised"
       ELSE /\ rfpc' = IF remote_file.prefetch_task THEN "result"
                                                    ELSE "download"
            /\ UNCHANGED got
    /\ UNCHANGED <<remote_file, prefetch, get_dir, completed_at,
                   download_calls>>
    /\ UNCHANGED remoteFrame

\* self.prefetch_task.result(); return self.file_cls(output_path): result()
\* returns when the task is done and raises what the download raised.
GetResult ==
    /\ rfpc = "result"
    /\ prefetch \in {"done", "failed"}
    /\ IF prefetch = "done"
       THEN /\ got' = [status |-> "returned", path |-> OutputPath]
            /\ rfpc' = "returned"
       ELSE /\ got' = [status |-> "raised", path |-> None]
            /\ rfpc' = "raised"
    /\ UNCHANGED <<remote_file, prefetch, get_dir, completed_at,
                   download_calls>>
    /\ UNCHANGED remoteFrame

\* self.file_cls.download(self.filename, output_path);
\* return self.file_cls(output_path)
GetDownload ==
    /\ rfpc = "download"
    /\ download_calls' = Append(download_calls, <<"get", OutputPath>>)
    /\ \E outcome \in {"return", "raise"} :
          IF outcome = "return"
          THEN /\ completed_at' = completed_at \cup {OutputPath}
               /\ got' = [status |-> "returned", path |-> OutputPath]
               /\ rfpc' = "returned"
          ELSE /\ got' = [status |-> "raised", path |-> None]
               /\ rfpc' = "raised"
               /\ UNCHANGED completed_at
    /\ UNCHANGED <<remote_file, prefetch, get_dir>>
    /\ UNCHANGED remoteFrame

NextRemote ==
    \/ PrefetchDownload
    \/ GetCheck
    \/ GetResult
    \/ GetDownload

SpecRemote == InitRemote /\ [][NextRemote]_vars

(***************************************************************************)
(* Properties of RemoteFile                                                *)
(***************************************************************************)
\* C24: whenever get has returned, a download to the path that the returned
\* object holds has completed, and when the RemoteFile has a prefetch task
\* get has waited for it (the task is done) and has started no download of
\* its own.
C24_GetReturnsDownloadedFile ==
    /\ got.status = "returned" => got.path \in completed_at
    /\ rfpc # "idle" /\ remote_file.prefetch_task =>
          /\ got.status = "returned" => prefetch = "done"
          /\ \A k \in DOMAIN download_calls : download_calls[k][1] # "get"

====
